---- MODULE Spec2Model ----
(***************************************************************************)
(* The arcade game of js/app.js (entities) and js/engine.js (game loop).   *)
(*                                                                         *)
(* Units.  engine.js computes dt = (now - lastTime) / 1000.0 from two      *)
(* integer millisecond clocks, so in the game every dt is a whole number   *)
(* of milliseconds; an object exercised on its own can be handed any dt.   *)
(* The model counts time in units of 1/7 ms (UnitsPerSecond of them make a *)
(* second) and lengths in 1/UnitsPerSecond of a pixel, so that speed * dt  *)
(* (pixels per second times seconds) is the integer speed * dt, and the dt *)
(* of 22/70 s, which takes a Text from size 28 to its cap, is a whole      *)
(* number of units.                                                        *)
(***************************************************************************)
EXTENDS Integers, Sequences, FiniteSets, TLC

VARIABLES
  pc,             \* position of the engine: loading, update, collide, render, waiting
  allEnemies,     \* the enemy roster (global of app.js/engine.js)
  player,         \* the player (global), NoPlayer before the first reset
  critters,       \* the ephemeral actors (global)
  reset_request,  \* engine.js:29
  reset_param,    \* engine.js:32
  elapsed,        \* simulated time (units) summed over the updates since the last reset
  uncaught,       \* the error a key listener last raised and nothing caught, or "none"
  rects           \* two boxes a and b, the calls of Enemy.rectsIntersect made on them
                  \* (a, b as "ab"; b, a as "ba") and what these returned

vars ==
  <<pc, allEnemies, player, critters, reset_request, reset_param, elapsed, uncaught,
    rects>>

----------------------------------------------------------------------------
(* Bounds of the model *)

\* an object exercised on its own is fed a dt of 0 .. MaxDtSteps half seconds
MaxDtSteps == 2

\* Math.random() returns one of k / RandomSteps, k in 0 .. RandomSteps - 1
RandomSteps == 3

\* an enemy fed long dt too is fed at most the time of this many long ticks
MaxLongTicks == 3

\* an actor exercised on its own, dead or alive, is fed at most this many seconds
MaxActorSeconds == 7

\* and its updates stop once the player's speed has been doubled this many times
MaxDoublings == 2

\* an enemy and a player moved together are fed at most this many milliseconds
\* in short ticks, and at most one long tick
MaxMotionMs == 10

\* in the game a Wild enemy's decision reads a roll in 0 .. MaxRoll (0 flips it)
MaxRoll == 0

\* target times (in seconds) of the Chronos exercised on its own: 1 .. MaxTarget
MaxTarget == 6

\* a Chronos exercised on its own is updated until its callback ran MaxFired times
MaxFired == 4

\* the boxes handed to rectsIntersect on its own have coordinates in 0 .. MaxCoord
MaxCoord == 3

\* an enemy whose simulated time is followed is updated for at most MaxWindows
\* decision intervals (of 2 seconds each)
MaxWindows == 2

----------------------------------------------------------------------------
(* Program constants *)

MsPerSecond == 1000

\* the units of time in a millisecond
UnitsPerMs == 7

UnitsPerSecond == UnitsPerMs * MsPerSecond

CanvasWidth == 505

CanvasHeight == 606

SpriteWidth == 101

SpriteHeight == 171

\* a length of n pixels, in units of length
Px(n) == n * UnitsPerSecond

\* one step of dt: half a second
DtStep == UnitsPerSecond \div 2

\* the dt fed to an object exercised on its own
Dts == {k * DtStep : k \in 0..MaxDtSteps}

\* the dt of a frame of the game: none, or one step
GameDts == {0, DtStep}

\* mutant: the displacement is not rounded down to whole pixels
FloorDisplacement_unrounded(speed, dt) == speed * dt

\* Math.floor(speed * dt) pixels, speed in px/s and dt in units of time
FloorDisplacement(speed, dt) == Px((speed * dt) \div UnitsPerSecond)

----------------------------------------------------------------------------
(* Geometry and the generic Enemy *)

EnemyRectBounds ==
  [left |-> Px(0), top |-> Px(76), right |-> Px(SpriteWidth),
   bottom |-> Px(SpriteHeight - 26)]

\* mutant: the player's box is the whole sprite
PlayerRectBounds_wholeSprite ==
  [left |-> Px(0), top |-> Px(0), right |-> Px(SpriteWidth), bottom |-> Px(SpriteHeight)]

PlayerRectBounds ==
  [left |-> Px(18), top |-> Px(64), right |-> Px(83), bottom |-> Px(140)]

BonusRectBounds ==
  [left |-> Px(15), top |-> Px(66), right |-> Px(SpriteWidth - 15),
   bottom |-> Px(SpriteHeight - 35)]

screenBounds ==
  [x |-> Px(0), y |-> Px(52), width |-> Px(CanvasWidth),
   height |-> Px(CanvasHeight - 20)]

EnemyTypes == {"Wrapping", "Bouncing", "Wild"}

rectBounds(e) ==
  CASE e.kind = "Player" -> PlayerRectBounds
    [] e.kind = "Bonus" -> BonusRectBounds
    [] OTHER -> EnemyRectBounds

\* mutant: only one order of the boxes is tested on the horizontal axis
rectsIntersect_oneSided(a, b) ==
  ~(a.right < b.left \/ a.bottom < b.top \/ b.bottom < a.top)

\* mutant: boxes that only touch count as apart
rectsIntersect_strict(a, b) ==
  ~(a.right <= b.left \/ b.right <= a.left \/ a.bottom <= b.top \/ b.bottom <= a.top)

rectsIntersect(a, b) ==
  ~(a.right < b.left \/ b.right < a.left \/ a.bottom < b.top \/ b.bottom < a.top)

Enemy_boundingBoxes(e) ==
  << [left |-> e.x + rectBounds(e).left,
      top |-> e.y + rectBounds(e).top,
      right |-> e.x + rectBounds(e).right,
      bottom |-> e.y + rectBounds(e).bottom] >>

\* mutant: the part that has left the screen on the right gets no box on the left
WrappingEnemy_boundingBoxes_noStrip(e) == Enemy_boundingBoxes(e)

WrappingEnemy_boundingBoxes(e) ==
  LET boxes == Enemy_boundingBoxes(e)
      wrapped == (e.x + rectBounds(e).right) - screenBounds.width
  IN IF wrapped > 0
       THEN Append(boxes, [left |-> 0,
                           top |-> e.y + rectBounds(e).top,
                           right |-> wrapped,
                           bottom |-> e.y + rectBounds(e).bottom])
       ELSE boxes

\* the method the prototype chain of e resolves boundingBoxes to
boundingBoxes(e) ==
  IF e.kind = "Wrapping" THEN WrappingEnemy_boundingBoxes(e)
                         ELSE Enemy_boundingBoxes(e)

\* some pair (box of a, box of b) intersects
BoxesIntersect(a, b) ==
  \E i \in 1..Len(boundingBoxes(a)) : \E j \in 1..Len(boundingBoxes(b)) :
     rectsIntersect(boundingBoxes(a)[i], boundingBoxes(b)[j])

unhit(e) == [e EXCEPT !.hit_ = FALSE]

hit(e) == [e EXCEPT !.hit_ = TRUE]

isHit(e) == e.hit_

\* mutant: only this is marked, other is left alone
collide_marksSelfOnly(a, b) ==
  IF BoxesIntersect(a, b) THEN <<hit(a), b>> ELSE <<a, b>>

\* a.collide(b): the pair <<a, b>> afterwards
collide(a, b) ==
  IF BoxesIntersect(a, b) THEN <<hit(a), hit(b)>> ELSE <<a, b>>

\* new Enemy(x, y): x || 100 and y || 100 replace a 0 by 100
OrDefault(v) == IF v = 0 THEN Px(100) ELSE v

NewEnemy(type, x, y) ==
  [kind |-> type, x |-> OrDefault(x), y |-> OrDefault(y), speed |-> 222,
   hit_ |-> FALSE, goingRight |-> TRUE, time_ |-> 0]

----------------------------------------------------------------------------
(* Motion policies *)

\* mutant: the enemy re-enters as soon as it is at the right edge
WrappingEnemy_update_wrapsAtEdge(e, dt) ==
  LET x1 == e.x + FloorDisplacement(e.speed, dt)
  IN [e EXCEPT !.x = IF x1 >= screenBounds.width THEN 0 ELSE x1]

WrappingEnemy_update(e, dt) ==
  LET x1 == e.x + FloorDisplacement(e.speed, dt)
  IN [e EXCEPT !.x = IF x1 > screenBounds.width THEN 0 ELSE x1]

\* mutant: going left, the enemy turns as soon as its left edge is beyond 0
BouncingEnemy_update_turnsAtLeadingEdge(e, dt) ==
  LET displacement == FloorDisplacement(e.speed, dt)
  IN IF e.goingRight
       THEN LET x1 == e.x + displacement
            IN IF x1 + rectBounds(e).left > screenBounds.width
                 THEN [e EXCEPT !.x = screenBounds.width, !.goingRight = FALSE]
                 ELSE [e EXCEPT !.x = x1]
       ELSE LET x1 == e.x - displacement
            IN IF x1 + rectBounds(e).left < 0
                 THEN [e EXCEPT !.x = -rectBounds(e).right, !.goingRight = TRUE]
                 ELSE [e EXCEPT !.x = x1]

\* mutant: going left, the enemy turns but keeps the position beyond the edge
BouncingEnemy_update_noLeftClamp(e, dt) ==
  LET displacement == FloorDisplacement(e.speed, dt)
  IN IF e.goingRight
       THEN LET x1 == e.x + displacement
            IN IF x1 + rectBounds(e).left > screenBounds.width
                 THEN [e EXCEPT !.x = screenBounds.width, !.goingRight = FALSE]
                 ELSE [e EXCEPT !.x = x1]
       ELSE LET x1 == e.x - displacement
            IN IF x1 + rectBounds(e).right < 0
                 THEN [e EXCEPT !.x = x1, !.goingRight = TRUE]
                 ELSE [e EXCEPT !.x = x1]

\* mutant: going right, the enemy turns but keeps the position beyond the edge
BouncingEnemy_update_noClamp(e, dt) ==
  LET displacement == FloorDisplacement(e.speed, dt)
  IN IF e.goingRight
       THEN LET x1 == e.x + displacement
            IN IF x1 + rectBounds(e).left > screenBounds.width
                 THEN [e EXCEPT !.x = x1, !.goingRight = FALSE]
                 ELSE [e EXCEPT !.x = x1]
       ELSE LET x1 == e.x - displacement
            IN IF x1 + rectBounds(e).right < 0
                 THEN [e EXCEPT !.x = -rectBounds(e).right, !.goingRight = TRUE]
                 ELSE [e EXCEPT !.x = x1]

BouncingEnemy_update(e, dt) ==
  LET displacement == FloorDisplacement(e.speed, dt)
  IN IF e.goingRight
       THEN LET x1 == e.x + displacement
            IN IF x1 + rectBounds(e).left > screenBounds.width
                 THEN [e EXCEPT !.x = screenBounds.width, !.goingRight = FALSE]
                 ELSE [e EXCEPT !.x = x1]
       ELSE LET x1 == e.x - displacement
            IN IF x1 + rectBounds(e).right < 0
                 THEN [e EXCEPT !.x = -rectBounds(e).right, !.goingRight = TRUE]
                 ELSE [e EXCEPT !.x = x1]

WildSpeedChange == 100

WildMinSpeed == 100

WildMaxSpeed == 1000

WildDecisionTime == 2

\* mutant: an increase of the speed is not clamped to the maximum
WildEnemy_update_noMaxClamp(e, dt, chance) ==
  LET t1 == e.time_ + dt
      decided ==
        IF t1 > WildDecisionTime * UnitsPerSecond
          THEN LET e1 == [e EXCEPT !.time_ = t1 - WildDecisionTime * UnitsPerSecond]
               IN IF chance = 0
                    THEN [e1 EXCEPT !.goingRight = ~e.goingRight]
                    ELSE IF chance = 1
                      THEN LET s == e.speed + WildSpeedChange
                           IN [e1 EXCEPT !.speed =
                                 s]
                      ELSE LET s == e.speed - WildSpeedChange
                           IN [e1 EXCEPT !.speed =
                                 IF s < WildMinSpeed THEN WildMinSpeed ELSE s]
          ELSE [e EXCEPT !.time_ = t1]
  IN BouncingEnemy_update(decided, dt)

\* mutant: the decision fires as soon as the clock reaches the decision time
WildEnemy_update_atDecisionTime(e, dt, chance) ==
  LET t1 == e.time_ + dt
      decided ==
        IF t1 >= WildDecisionTime * UnitsPerSecond
          THEN LET e1 == [e EXCEPT !.time_ = t1 - WildDecisionTime * UnitsPerSecond]
               IN IF chance = 0
                    THEN [e1 EXCEPT !.goingRight = ~e.goingRight]
                    ELSE IF chance = 1
                      THEN LET s == e.speed + WildSpeedChange
                           IN [e1 EXCEPT !.speed =
                                 IF s > WildMaxSpeed THEN WildMaxSpeed ELSE s]
                      ELSE LET s == e.speed - WildSpeedChange
                           IN [e1 EXCEPT !.speed =
                                 IF s < WildMinSpeed THEN WildMinSpeed ELSE s]
          ELSE [e EXCEPT !.time_ = t1]
  IN BouncingEnemy_update(decided, dt)

\* chance is the value of Math.floor(Math.random() * 3), read only on a decision
WildEnemy_update(e, dt, chance) ==
  LET t1 == e.time_ + dt
      decided ==
        IF t1 > WildDecisionTime * UnitsPerSecond
          THEN LET e1 == [e EXCEPT !.time_ = t1 - WildDecisionTime * UnitsPerSecond]
               IN IF chance = 0
                    THEN [e1 EXCEPT !.goingRight = ~e.goingRight]
                    ELSE IF chance = 1
                      THEN LET s == e.speed + WildSpeedChange
                           IN [e1 EXCEPT !.speed =
                                 IF s > WildMaxSpeed THEN WildMaxSpeed ELSE s]
                      ELSE LET s == e.speed - WildSpeedChange
                           IN [e1 EXCEPT !.speed =
                                 IF s < WildMinSpeed THEN WildMinSpeed ELSE s]
          ELSE [e EXCEPT !.time_ = t1]
  IN BouncingEnemy_update(decided, dt)

\* does this update of e read Math.random()?
WildDecides(e, dt) ==
  e.kind = "Wild" /\ e.time_ + dt > WildDecisionTime * UnitsPerSecond

\* enemy.update(dt) through the prototype chain
Enemy_update(e, dt, chance) ==
  CASE e.kind = "Wrapping" -> WrappingEnemy_update(e, dt)
    [] e.kind = "Bouncing" -> BouncingEnemy_update(e, dt)
    [] e.kind = "Wild" -> WildEnemy_update(e, dt, chance)
    [] OTHER -> e

----------------------------------------------------------------------------
(* Player *)

\* no boxes are under test
NoRects == [a |-> "none", b |-> "none", ab |-> FALSE, ba |-> FALSE, called |-> {}]

Movements == {"left", "right", "up", "down"}

NoPlayer == [kind |-> "undefined"]

PlayerSpeed == 333

NewPlayer(x, y) ==
  [kind |-> "Player", x |-> OrDefault(x), y |-> OrDefault(y), speed |-> PlayerSpeed,
   hit_ |-> FALSE, moves |-> [m \in Movements |-> FALSE]]

\* Player.keys[keyCode]; a key that is not in the table gives undefined
Player_keys(keyCode) ==
  CASE keyCode \in {37, 65} -> "left"
    [] keyCode \in {38, 87} -> "up"
    [] keyCode \in {39, 68} -> "right"
    [] keyCode \in {40, 83} -> "down"
    [] OTHER -> "undefined"

\* this.moves[movement] = pressed (an undefined movement adds a property of that name)
handleInput(p, movement, pressed) ==
  [p EXCEPT !.moves = [m \in (DOMAIN p.moves) \cup {movement} |->
                         IF m = movement THEN pressed ELSE p.moves[m]]]

\* mutant: the clamp at the top edge is left out
forceScreenBounds_noTop(p) ==
  LET x1 == IF p.x + rectBounds(p).left < screenBounds.x
              THEN screenBounds.x - rectBounds(p).left ELSE p.x
      x2 == IF x1 + rectBounds(p).right > screenBounds.width
              THEN screenBounds.width - rectBounds(p).right ELSE x1
      y2 == IF p.y + rectBounds(p).bottom > screenBounds.height
              THEN screenBounds.height - rectBounds(p).bottom ELSE p.y
  IN [p EXCEPT !.x = x2, !.y = y2]

forceScreenBounds(p) ==
  LET x1 == IF p.x + rectBounds(p).left < screenBounds.x
              THEN screenBounds.x - rectBounds(p).left ELSE p.x
      x2 == IF x1 + rectBounds(p).right > screenBounds.width
              THEN screenBounds.width - rectBounds(p).right ELSE x1
      y1 == IF p.y + rectBounds(p).top < screenBounds.y
              THEN screenBounds.y - rectBounds(p).top ELSE p.y
      y2 == IF y1 + rectBounds(p).bottom > screenBounds.height
              THEN screenBounds.height - rectBounds(p).bottom ELSE y1
  IN [p EXCEPT !.x = x2, !.y = y2]

Player_update(p, dt) ==
  LET displacement == dt * p.speed
      x1 == IF p.moves.left THEN p.x - displacement ELSE p.x
      x2 == IF p.moves.right THEN x1 + displacement ELSE x1
      y1 == IF p.moves.up THEN p.y - displacement ELSE p.y
      y2 == IF p.moves.down THEN y1 + displacement ELSE y1
  IN forceScreenBounds([p EXCEPT !.x = x2, !.y = y2])

\* mutant: the water begins where the top clamp holds the player
reachedWater_atClamp(p) == p.y < Px(-12)

reachedWater(p) == p.y < Px(-10)

----------------------------------------------------------------------------
(* Ephemeral actors: Text, MultiText, Chronos, Bonus *)

TextStartSize == 28

TextMaxSize == 50

TextSpeed == 70

NewText(s) == [text |-> s, x |-> 0, size |-> Px(TextStartSize), state_ |-> 0]

Text_update(t, dt) ==
  IF t.state_ = 0 /\ t.size < Px(TextMaxSize)
    THEN LET size1 == t.size + TextSpeed * dt
         IN [t EXCEPT !.size = size1,
                      !.state_ = IF size1 > Px(TextMaxSize) THEN 1 ELSE 0]
    ELSE IF t.state_ = 1
      THEN LET x1 == t.x + 4 * TextSpeed * dt
           IN [t EXCEPT !.x = x1,
                        !.state_ = IF x1 > Px(CanvasWidth) THEN 2 ELSE 1]
      ELSE t

Text_isAlive(t) == t.state_ # 2

\* idx is the 0-based index of the source; texts[idx] is texts[idx + 1] here
NewMultiText(strings) ==
  [kind |-> "MultiText",
   texts |-> [i \in 1..Len(strings) |-> NewText(strings[i])],
   idx |-> IF Len(strings) < 1 THEN -1 ELSE 0]

MultiText_isAlive(m) == m.idx > -1 /\ m.idx < Len(m.texts)

\* mutant: the index moves on in the very update in which the current Text dies
MultiText_update_advancesAtOnce(m, dt) ==
  IF MultiText_isAlive(m)
    THEN LET t1 == Text_update(m.texts[m.idx + 1], dt)
         IN IF Text_isAlive(t1)
              THEN [m EXCEPT !.texts[m.idx + 1] = t1]
              ELSE [m EXCEPT !.texts[m.idx + 1] = t1, !.idx = @ + 1]
    ELSE m

MultiText_update(m, dt) ==
  IF MultiText_isAlive(m)
    THEN IF Text_isAlive(m.texts[m.idx + 1])
           THEN [m EXCEPT !.texts[m.idx + 1] = Text_update(@, dt)]
           ELSE [m EXCEPT !.idx = @ + 1]
    ELSE m

\* fired counts the invocations of fn_ by this instance
NewChronos(targetTime) ==
  [kind |-> "Chronos", time_ |-> 0, targetTime_ |-> targetTime * UnitsPerSecond,
   fired |-> 0]

\* mutant: the timer still counts as alive at exactly the target time
Chronos_isAlive_atTarget(c) == c.time_ <= c.targetTime_

Chronos_isAlive(c) == c.time_ < c.targetTime_

\* mutant: isAlive() is tested before the time is advanced
Chronos_update_checksFirst(c, dt) ==
  LET c1 == [c EXCEPT !.time_ = @ + dt]
  IN IF ~Chronos_isAlive(c) THEN [c1 EXCEPT !.fired = @ + 1] ELSE c1

\* Chronos.update(dt): the instance afterwards; fn_ ran iff fired grew
Chronos_update(c, dt) ==
  LET c1 == [c EXCEPT !.time_ = @ + dt]
  IN IF ~Chronos_isAlive(c1) THEN [c1 EXCEPT !.fired = @ + 1] ELSE c1

BonusSpeed == 100

NewBonus(x, y) ==
  [kind |-> "Bonus", x |-> OrDefault(x), y |-> OrDefault(y), speed |-> BonusSpeed,
   hit_ |-> FALSE, alive_ |-> TRUE]

\* mutant: the bonus forgets to die
applyBonus_keepsAlive(b, receiver) ==
  << b, [receiver EXCEPT !.speed = @ * 2] >>

\* applyBonus(receiver): <<the bonus, the receiver>> afterwards
applyBonus(b, receiver) ==
  << [b EXCEPT !.alive_ = FALSE], [receiver EXCEPT !.speed = @ * 2] >>

\* mutant: alive_ is recomputed from the height on every update
Bonus_update_revives(b, p, dt) ==
  LET y1 == b.y + b.speed * dt
      b1 == [b EXCEPT !.y = y1, !.alive_ = ~(y1 > screenBounds.height)]
  IN IF BoxesIntersect(b1, p) THEN applyBonus(b1, p) ELSE <<b1, p>>

\* mutant: the bonus dies as soon as the bottom of its box is below the arena
Bonus_update_diesAtBoxBottom(b, p, dt) ==
  LET y1 == b.y + b.speed * dt
      b1 == [b EXCEPT !.y = y1,
                      !.alive_ = IF y1 + rectBounds(b).bottom > screenBounds.height
                                   THEN FALSE ELSE @]
  IN IF BoxesIntersect(b1, p) THEN applyBonus(b1, p) ELSE <<b1, p>>

\* Bonus.update(dt) reads and writes the global player: <<the bonus, the player>>
Bonus_update(b, p, dt) ==
  LET y1 == b.y + b.speed * dt
      b1 == [b EXCEPT !.y = y1,
                      !.alive_ = IF y1 > screenBounds.height THEN FALSE ELSE @]
  IN IF BoxesIntersect(b1, p) THEN applyBonus(b1, p) ELSE <<b1, p>>

Bonus_isAlive(b) == b.alive_

isAlive(thing) ==
  CASE thing.kind = "Chronos" -> Chronos_isAlive(thing)
    [] thing.kind = "MultiText" -> MultiText_isAlive(thing)
    [] thing.kind = "Bonus" -> Bonus_isAlive(thing)

----------------------------------------------------------------------------
(* engine.js: the session controller *)

\* JavaScript values of reset_param and of the argument of reset
JsValues == {"undefined", "null", "true", "false"}

Truthy(v) == v = "true"

\* mutant: the argument is not stored
request_reset_dropsArg(arg) == [reset_request |-> TRUE, reset_param |-> reset_param]

\* request_reset(arg): the two engine variables afterwards
request_reset(arg) == [reset_request |-> TRUE, reset_param |-> arg]

\* y-values of rows; rows[r] of the source is rows[r + 1] here
rows == <<-20, 60, 146, 226, 300, 405>>

\* Math.random() returns r / RandomSteps
Randoms == 0..(RandomSteps - 1)

\* randomInt(range) when Math.random() returns r / RandomSteps
randomInt(range, r) == (r * range) \div RandomSteps

enemy_types == <<"Wrapping", "Bouncing", "Wild">>

\* randomEnemy(row) when the two calls of Math.random() return rType and rX
randomEnemy(row, rType, rX) ==
  NewEnemy(enemy_types[randomInt(Len(enemy_types), rType) + 1],
           Px(randomInt(CanvasWidth, rX)), Px(rows[row + 1]))

NumEnemies == 3

ChronosTarget == 10

ResetMessages(success) ==
  IF Truthy(success)
    THEN <<"CONGRATULATIONS!", "NOW">> \o <<"REACH", "THAT", "WATER">>
    ELSE <<"REACH", "THAT", "WATER">>

\* the draws of one reset, for each enemy the two values of Math.random():
\* six consecutive values of the cycle 0, 1, .. RandomSteps - 1, from any start
ResetDraws ==
  {[i \in 1..NumEnemies |->
      [type |-> (r + 2 * (i - 1)) % RandomSteps,
       x |-> (r + 2 * (i - 1) + 1) % RandomSteps]] : r \in Randoms}

\* the rolls Math.floor(Math.random() * 3) a Wild enemy's decision reads in the game
WildRolls == {randomInt(3, r) : r \in Randoms} \cap 0..MaxRoll

\* mutant: the enemies are spawned in rows 0 .. 2
reset_rowsFromZero(success, draws) ==
  [allEnemies |-> [i \in 1..NumEnemies |->
                     randomEnemy(i - 1, draws[i].type, draws[i].x)],
   player |-> NewPlayer(Px(202), Px(rows[6])),
   critters |-> << NewChronos(ChronosTarget),
                   NewMultiText(ResetMessages(success)),
                   NewBonus(Px(100), Px(100)) >>]

\* mutant: the player is put back at the start instead of being constructed anew
reset_movesPlayerBack(success, draws) ==
  [allEnemies |-> [i \in 1..NumEnemies |->
                     randomEnemy(i, draws[i].type, draws[i].x)],
   player |-> IF player = NoPlayer
                THEN NewPlayer(Px(202), Px(rows[6]))
                ELSE [player EXCEPT !.x = Px(202), !.y = Px(rows[6])],
   critters |-> << NewChronos(ChronosTarget),
                   NewMultiText(ResetMessages(success)),
                   NewBonus(Px(100), Px(100)) >>]

\* reset(success): the three globals it assigns
reset(success, draws) ==
  [allEnemies |-> [i \in 1..NumEnemies |->
                     randomEnemy(i, draws[i].type, draws[i].x)],
   player |-> NewPlayer(Px(202), Px(rows[6])),
   critters |-> << NewChronos(ChronosTarget),
                   NewMultiText(ResetMessages(success)),
                   NewBonus(Px(100), Px(100)) >>]

\* thing.update(dt) for one live critter, on the state st the forEach carries:
\* the player, the survivors so far and the two engine variables
Thing_update(thing, dt, st) ==
  CASE thing.kind = "Chronos" ->
         LET c1 == Chronos_update(thing, dt)
             rr == request_reset("undefined")
         IN IF c1.fired > thing.fired
              THEN [st EXCEPT !.survivors = Append(@, c1),
                              !.reset_request = rr.reset_request,
                              !.reset_param = rr.reset_param]
              ELSE [st EXCEPT !.survivors = Append(@, c1)]
    [] thing.kind = "MultiText" ->
         [st EXCEPT !.survivors = Append(@, MultiText_update(thing, dt))]
    [] thing.kind = "Bonus" ->
         LET r == Bonus_update(thing, st.player, dt)
         IN [st EXCEPT !.survivors = Append(@, r[1]), !.player = r[2]]

\* mutant: a live critter is kept but its update is not called
RECURSIVE UpdateCritters_dropsUpdate(_, _, _)
UpdateCritters_dropsUpdate(cs, dt, st) ==
  IF cs = <<>>
    THEN st
    ELSE IF isAlive(Head(cs))
      THEN UpdateCritters_dropsUpdate(Tail(cs), dt,
             [st EXCEPT !.survivors = Append(@, Head(cs))])
      ELSE UpdateCritters_dropsUpdate(Tail(cs), dt, st)

\* mutant: an actor that dies in its update is dropped in the same tick
RECURSIVE UpdateCritters_dropsNewlyDead(_, _, _)
UpdateCritters_dropsNewlyDead(cs, dt, st) ==
  IF cs = <<>>
    THEN st
    ELSE IF isAlive(Head(cs))
      THEN LET st1 == Thing_update(Head(cs), dt, st)
           IN UpdateCritters_dropsNewlyDead(Tail(cs), dt,
                [st1 EXCEPT !.survivors = SelectSeq(@, isAlive)])
      ELSE UpdateCritters_dropsNewlyDead(Tail(cs), dt, st)

\* mutant: a dead critter is dropped, but its update is called once more
RECURSIVE UpdateCritters_updatesDead(_, _, _)
UpdateCritters_updatesDead(cs, dt, st) ==
  IF cs = <<>>
    THEN st
    ELSE IF isAlive(Head(cs))
      THEN UpdateCritters_updatesDead(Tail(cs), dt, Thing_update(Head(cs), dt, st))
      ELSE UpdateCritters_updatesDead(Tail(cs), dt,
             [Thing_update(Head(cs), dt, st) EXCEPT !.survivors = st.survivors])

RECURSIVE UpdateCritters(_, _, _)
UpdateCritters(cs, dt, st) ==
  IF cs = <<>>
    THEN st
    ELSE IF isAlive(Head(cs))
      THEN UpdateCritters(Tail(cs), dt, Thing_update(Head(cs), dt, st))
      ELSE UpdateCritters(Tail(cs), dt, st)

\* updateEntities(dt): the globals afterwards; chances[i] is the roll enemy i reads
updateEntities(dt, chances) ==
  LET st == UpdateCritters(critters, dt,
              [player |-> Player_update(player, dt), survivors |-> <<>>,
               reset_request |-> reset_request, reset_param |-> reset_param])
  IN [allEnemies |-> [i \in 1..Len(allEnemies) |->
                        Enemy_update(allEnemies[i], dt, chances[i])],
      player |-> st.player,
      critters |-> st.survivors,
      reset_request |-> st.reset_request,
      reset_param |-> st.reset_param]

\* mutant: the enemies are not unhit before they are collided with
RECURSIVE CollideFrom_keepsHit(_, _, _)
CollideFrom_keepsHit(p, es, i) ==
  IF i > Len(es)
    THEN <<p, es>>
    ELSE LET r == collide(p, es[i])
         IN CollideFrom_keepsHit(r[1], [es EXCEPT ![i] = r[2]], i + 1)

\* the loop of checkCollisions from enemy i on: <<the player, the enemies>>
RECURSIVE CollideFrom(_, _, _)
CollideFrom(p, es, i) ==
  IF i > Len(es)
    THEN <<p, es>>
    ELSE LET r == collide(p, unhit(es[i]))
         IN CollideFrom(r[1], [es EXCEPT ![i] = r[2]], i + 1)

\* mutant: reaching the water does not request a reset
checkCollisions_hitOnly ==
  LET r == CollideFrom(unhit(player), allEnemies, 1)
      rr0 == [reset_request |-> reset_request, reset_param |-> reset_param]
      rr1 == IF isHit(r[1]) THEN request_reset("false") ELSE rr0
  IN [player |-> r[1], allEnemies |-> r[2],
      reset_request |-> rr1.reset_request, reset_param |-> rr1.reset_param]

\* checkCollisions(): the globals afterwards
checkCollisions ==
  LET r == CollideFrom(unhit(player), allEnemies, 1)
      rr0 == [reset_request |-> reset_request, reset_param |-> reset_param]
      rr1 == IF isHit(r[1]) THEN request_reset("false") ELSE rr0
      rr2 == IF reachedWater(r[1]) THEN request_reset("true") ELSE rr1
  IN [player |-> r[1], allEnemies |-> r[2],
      reset_request |-> rr2.reset_request, reset_param |-> rr2.reset_param]

----------------------------------------------------------------------------
(* The game: actions of the engine and of the two key listeners *)

\* key codes the listeners of the game are fed: left and up
KeyCodes == {37, 38}

Init ==
  /\ pc = "loading"
  /\ allEnemies = <<>>
  /\ player = NoPlayer
  /\ critters = <<>>
  /\ reset_request = FALSE
  /\ reset_param = "undefined"
  /\ elapsed = 0
  /\ uncaught = "none"
  /\ rects = NoRects

\* init(): reset(), then main() up to its call of update
init ==
  /\ pc = "loading"
  /\ \E draws \in ResetDraws :
       LET g == reset("undefined", draws)
       IN /\ allEnemies' = g.allEnemies
          /\ player' = g.player
          /\ critters' = g.critters
  /\ elapsed' = 0
  /\ pc' = "update"
  /\ UNCHANGED <<reset_request, reset_param, uncaught, rects>>

\* mutant: the reset "state" is not cleaned up after the reset
main_keepsRequest ==
  /\ pc = "waiting"
  /\ IF reset_request
       THEN /\ \E draws \in ResetDraws :
                 LET g == reset(reset_param, draws)
                 IN /\ allEnemies' = g.allEnemies
                    /\ player' = g.player
                    /\ critters' = g.critters
            /\ elapsed' = 0
            /\ UNCHANGED <<reset_request, reset_param>>
       ELSE UNCHANGED <<allEnemies, player, critters, reset_request, reset_param,
                        elapsed>>
  /\ pc' = "update"
  /\ UNCHANGED <<uncaught, rects>>

\* main(), from its entry to its call of update
main ==
  /\ pc = "waiting"
  /\ IF reset_request
       THEN /\ \E draws \in ResetDraws :
                 LET g == reset(reset_param, draws)
                 IN /\ allEnemies' = g.allEnemies
                    /\ player' = g.player
                    /\ critters' = g.critters
            /\ reset_request' = FALSE
            /\ reset_param' = "null"
            /\ elapsed' = 0
       ELSE UNCHANGED <<allEnemies, player, critters, reset_request, reset_param,
                        elapsed>>
  /\ pc' = "update"
  /\ UNCHANGED <<uncaught, rects>>

\* updateEntities(dt), then on to the phase next
UpdateThen(next) ==
  /\ pc = "update"
  /\ \E dt \in GameDts :
       \E chances \in [1..Len(allEnemies) -> 0..2] :
          /\ \A i \in 1..Len(allEnemies) :
               /\ chances[i] \in WildRolls
               /\ ~WildDecides(allEnemies[i], dt) => chances[i] = 0
          /\ LET g == updateEntities(dt, chances)
             IN /\ allEnemies' = g.allEnemies
                /\ player' = g.player
                /\ critters' = g.critters
                /\ reset_request' = g.reset_request
                /\ reset_param' = g.reset_param
          /\ elapsed' = elapsed + dt
  /\ pc' = next
  /\ UNCHANGED <<uncaught, rects>>

\* mutant: update(dt) does not call checkCollisions()
Update_skipsCollisions == UpdateThen("render")

\* update(dt), first half: updateEntities(dt)
Update == UpdateThen("collide")

\* update(dt), second half: checkCollisions()
CheckCollisions ==
  /\ pc = "collide"
  /\ LET g == checkCollisions
     IN /\ allEnemies' = g.allEnemies
        /\ player' = g.player
        /\ reset_request' = g.reset_request
        /\ reset_param' = g.reset_param
  /\ pc' = "render"
  /\ UNCHANGED <<critters, elapsed, uncaught, rects>>

\* render(), lastTime = now and requestAnimationFrame(main): reads only
Render ==
  /\ pc = "render"
  /\ pc' = "waiting"
  /\ UNCHANGED <<allEnemies, player, critters, reset_request, reset_param, elapsed,
               uncaught, rects>>

\* the table allowedKeys of the two listeners that app.js registers first
allowedKeys(keyCode) ==
  CASE keyCode = 37 -> "left"
    [] keyCode = 38 -> "up"
    [] keyCode = 39 -> "right"
    [] keyCode = 40 -> "down"
    [] keyCode = 87 -> "w"
    [] keyCode = 83 -> "s"
    [] keyCode = 65 -> "a"
    [] keyCode = 68 -> "d"
    [] OTHER -> "undefined"

\* the listeners app.js registers first: player.handleInput(allowedKeys[..], val)
\* with no test of player; st is the player and the uncaught error
EarlyListener(st, keyCode, pressed) ==
  IF st.player = NoPlayer
    THEN [st EXCEPT !.uncaught = "ReferenceError"]
    ELSE [st EXCEPT !.player = handleInput(@, allowedKeys(keyCode), pressed)]

\* the listeners app.js registers last: if (player) player.handleInput(..).
\* No file declares player, reset creates it by assigning to it, so before the
\* first reset the test itself reads a name that is not defined
FinalListener(st, keyCode, pressed) ==
  IF st.player = NoPlayer
    THEN [st EXCEPT !.uncaught = "ReferenceError"]
    ELSE [st EXCEPT !.player = handleInput(@, Player_keys(keyCode), pressed)]

\* a key event: the browser runs the listeners of its type between two frames,
\* in the order of their registration, each whatever the other raised
KeyEvent(keyCode, pressed) ==
  /\ pc \in {"loading", "waiting"}
  /\ LET st == FinalListener(
                 EarlyListener([player |-> player, uncaught |-> uncaught],
                               keyCode, pressed),
                 keyCode, pressed)
     IN /\ player' = st.player
        /\ uncaught' = st.uncaught
  /\ UNCHANGED <<pc, allEnemies, critters, reset_request, reset_param, elapsed,
               rects>>

keydown == \E keyCode \in KeyCodes : KeyEvent(keyCode, TRUE)

keyup == \E keyCode \in KeyCodes : KeyEvent(keyCode, FALSE)

Next == init \/ main \/ Update \/ CheckCollisions \/ Render \/ keydown \/ keyup

Spec == Init /\ [][Next]_vars

----------------------------------------------------------------------------
(* A Player exercised on its own: any handleInput and update(dt) calls *)

\* every key of Player.keys and one key that is not in the table
AllKeyCodes == {37, 38, 39, 40, 87, 83, 65, 68, 13}

InitPlayer ==
  /\ pc = "player"
  /\ allEnemies = <<>>
  /\ player \in {[NewPlayer(Px(202), Px(rows[6])) EXCEPT !.speed = sp] :
                   sp \in {PlayerSpeed, 2 * PlayerSpeed}}
  /\ critters = <<>>
  /\ reset_request = FALSE
  /\ reset_param = "undefined"
  /\ elapsed = 0
  /\ uncaught = "none"
  /\ rects = NoRects

PlayerHandleInput ==
  /\ pc = "player"
  /\ \E keyCode \in AllKeyCodes : \E pressed \in BOOLEAN :
       player' = handleInput(player, Player_keys(keyCode), pressed)
  /\ UNCHANGED <<pc, allEnemies, critters, reset_request, reset_param, elapsed,
               uncaught, rects>>

PlayerUpdate ==
  /\ pc = "player"
  /\ \E dt \in Dts : player' = Player_update(player, dt)
  /\ UNCHANGED <<pc, allEnemies, critters, reset_request, reset_param, elapsed,
               uncaught, rects>>

NextPlayer == PlayerHandleInput \/ PlayerUpdate

SpecPlayer == InitPlayer /\ [][NextPlayer]_vars

----------------------------------------------------------------------------
(* A Chronos exercised on its own: update(dt) calls, also after its time is up; *)
(* its callback is the one reset gives it, function() { request_reset(); }      *)

InitChronos ==
  /\ pc = "chronos"
  /\ allEnemies = <<>>
  /\ player = NoPlayer
  /\ critters \in {<<NewChronos(t)>> : t \in 1..MaxTarget}
  /\ reset_request = FALSE
  /\ reset_param = "undefined"
  /\ elapsed = 0
  /\ uncaught = "none"
  /\ rects = NoRects

ChronosUpdate ==
  /\ pc = "chronos"
  /\ critters[1].fired < MaxFired
  /\ \E dt \in Dts :
       LET st == Thing_update(critters[1], dt,
                   [player |-> player, survivors |-> <<>>,
                    reset_request |-> reset_request, reset_param |-> reset_param])
       IN /\ critters' = st.survivors
          /\ reset_request' = st.reset_request
          /\ reset_param' = st.reset_param
  /\ UNCHANGED <<pc, allEnemies, player, elapsed, uncaught, rects>>

NextChronos == ChronosUpdate

SpecChronos == InitChronos /\ [][NextChronos]_vars

----------------------------------------------------------------------------
(* The update / collision pass of the engine exercised on its own, on a player *)
(* and one enemy of any type in any enemy row: no reset is ever applied, so    *)
(* the two keep moving after a hit and can part again                          *)

HarnessKeyCodes == {37, 38, 40}

InitCollisions ==
  /\ pc = "pass_done"
  /\ allEnemies \in {<<randomEnemy(row, rType, rX)>> :
                       row \in 1..3, rType \in Randoms, rX \in Randoms}
  /\ player = NewPlayer(Px(202), Px(rows[6]))
  /\ critters = <<>>
  /\ reset_request = FALSE
  /\ reset_param = "undefined"
  /\ elapsed = 0
  /\ uncaught = "none"
  /\ rects = NoRects

HarnessKey ==
  /\ pc = "pass_done"
  /\ \E keyCode \in HarnessKeyCodes : \E pressed \in BOOLEAN :
       player' = handleInput(player, Player_keys(keyCode), pressed)
  /\ UNCHANGED <<pc, allEnemies, critters, reset_request, reset_param, elapsed,
               uncaught, rects>>

HarnessUpdate ==
  /\ pc = "pass_done"
  /\ \E dt \in GameDts :
       \E chances \in [1..Len(allEnemies) -> 0..2] :
          /\ \A i \in 1..Len(allEnemies) :
               /\ chances[i] \in WildRolls
               /\ ~WildDecides(allEnemies[i], dt) => chances[i] = 0
          /\ LET g == updateEntities(dt, chances)
             IN /\ allEnemies' = g.allEnemies
                /\ player' = g.player
                /\ critters' = g.critters
                /\ reset_request' = g.reset_request
                /\ reset_param' = g.reset_param
  /\ pc' = "moved"
  /\ UNCHANGED <<elapsed, uncaught, rects>>

HarnessCollide ==
  /\ pc = "moved"
  /\ LET g == checkCollisions
     IN /\ allEnemies' = g.allEnemies
        /\ player' = g.player
        /\ reset_request' = g.reset_request
        /\ reset_param' = g.reset_param
  /\ pc' = "pass_done"
  /\ UNCHANGED <<critters, elapsed, uncaught, rects>>

NextCollisions == HarnessKey \/ HarnessUpdate \/ HarnessCollide

SpecCollisions == InitCollisions /\ [][NextCollisions]_vars

----------------------------------------------------------------------------
(* One enemy of any type exercised on its own: update(dt) calls with any dt and *)
(* any roll. In SpecEnemy the run is unbounded; in SpecEnemyWindow elapsed is   *)
(* the simulated time the enemy has been fed since its construction              *)

\* the x the enemy is constructed with, in pixels (0 is replaced by the default)
SpawnXs == {0, 394, 500, 505}

Rolls == 0..2

\* a long dt: it takes the decision clock of a Wild enemy beyond its decision time
\* and any enemy further than the arena is wide
LongTick == WildDecisionTime * UnitsPerSecond + DtStep

InitEnemy ==
  /\ pc = "enemy"
  /\ allEnemies \in {<<NewEnemy(type, Px(x), Px(rows[2]))>> :
                       type \in EnemyTypes, x \in SpawnXs}
  /\ player = NoPlayer
  /\ critters = <<>>
  /\ reset_request = FALSE
  /\ reset_param = "undefined"
  /\ elapsed = 0
  /\ uncaught = "none"
  /\ rects = NoRects

\* enemy.update(dt); chance is the roll a deciding Wild enemy reads
EnemyUpdateWith(dt, chance) ==
  /\ pc = "enemy"
  /\ ~WildDecides(allEnemies[1], dt) => chance = 0
  /\ allEnemies' = <<Enemy_update(allEnemies[1], dt, chance)>>
  /\ UNCHANGED <<pc, player, critters, reset_request, reset_param, uncaught, rects>>

EnemyUpdate ==
  /\ \E dt \in Dts : \E chance \in Rolls : EnemyUpdateWith(dt, chance)
  /\ UNCHANGED elapsed

EnemyTimedUpdate ==
  \E dt \in Dts : \E chance \in Rolls :
     /\ elapsed + dt <= MaxWindows * WildDecisionTime * UnitsPerSecond + DtStep
     /\ EnemyUpdateWith(dt, chance)
     /\ elapsed' = elapsed + dt

NextEnemy == EnemyUpdate

SpecEnemy == InitEnemy /\ [][NextEnemy]_vars

\* an update with any dt, a long one too, within MaxLongTicks long ticks of time
EnemyLongUpdate ==
  \E dt \in Dts \cup {LongTick} : \E chance \in Rolls :
     /\ elapsed + dt <= MaxLongTicks * LongTick
     /\ EnemyUpdateWith(dt, chance)
     /\ elapsed' = elapsed + dt

NextEnemyLong == EnemyLongUpdate

SpecEnemyLong == InitEnemy /\ [][NextEnemyLong]_vars

NextEnemyWindow == EnemyTimedUpdate

SpecEnemyWindow == InitEnemy /\ [][NextEnemyWindow]_vars

----------------------------------------------------------------------------
(* Enemy.rectsIntersect exercised on its own, on every pair of well-formed boxes *)
(* with small integer coordinates, in both orders                               *)

Boxes ==
  {box \in [left : 0..MaxCoord, top : 0..MaxCoord,
            right : 0..MaxCoord, bottom : 0..MaxCoord] :
     box.left <= box.right /\ box.top <= box.bottom}

InitRects ==
  /\ pc = "rects"
  /\ allEnemies = <<>>
  /\ player = NoPlayer
  /\ critters = <<>>
  /\ reset_request = FALSE
  /\ reset_param = "undefined"
  /\ elapsed = 0
  /\ uncaught = "none"
  /\ rects \in {[a |-> a, b |-> b, ab |-> FALSE, ba |-> FALSE, called |-> {}] :
                  a \in Boxes, b \in Boxes}

\* Enemy.rectsIntersect(a, b)
IntersectAB ==
  /\ pc = "rects"
  /\ "ab" \notin rects.called
  /\ rects' = [rects EXCEPT !.ab = rectsIntersect(rects.a, rects.b),
                            !.called = @ \cup {"ab"}]
  /\ UNCHANGED <<pc, allEnemies, player, critters, reset_request, reset_param,
               elapsed, uncaught>>

\* Enemy.rectsIntersect(b, a)
IntersectBA ==
  /\ pc = "rects"
  /\ "ba" \notin rects.called
  /\ rects' = [rects EXCEPT !.ba = rectsIntersect(rects.b, rects.a),
                            !.called = @ \cup {"ba"}]
  /\ UNCHANGED <<pc, allEnemies, player, critters, reset_request, reset_param,
               elapsed, uncaught>>

NextRects == IntersectAB \/ IntersectBA

SpecRects == InitRects /\ [][NextRects]_vars

----------------------------------------------------------------------------
(* collide exercised on its own: a player and one enemy of any type are placed *)
(* in the first enemy row or apart, with any hit flags, and one of them is     *)
(* collided with the other                                                     *)

\* the x of the enemy, in pixels: both ends of its range, and around the x from
\* which its right edge is beyond the right edge of the screen
PlacedEnemyXs == {-101, 0, 404, 405, 450, 505}

\* the x of the player, in pixels: its two clamps and its start
PlacedPlayerXs == {-18, 202, 422}

\* the y of the player, in pixels: two moves up from the start, and the start
PlacedPlayerYs == {72, 405}

InitCollide ==
  /\ pc = "placed"
  /\ allEnemies \in
       {<<[NewEnemy(type, Px(x), Px(rows[2])) EXCEPT !.x = Px(x), !.hit_ = h]>> :
          type \in EnemyTypes, x \in PlacedEnemyXs, h \in BOOLEAN}
  /\ allEnemies[1].kind = "Wrapping" => allEnemies[1].x >= 0
  /\ player \in
       {[NewPlayer(Px(x), Px(y)) EXCEPT !.x = Px(x), !.hit_ = h] :
          x \in PlacedPlayerXs, y \in PlacedPlayerYs, h \in BOOLEAN}
  /\ critters = <<>>
  /\ reset_request = FALSE
  /\ reset_param = "undefined"
  /\ elapsed = 0
  /\ uncaught = "none"
  /\ rects = NoRects

\* player.collide(enemy)
PlayerCollide ==
  /\ pc = "placed"
  /\ LET r == collide(player, allEnemies[1])
     IN player' = r[1] /\ allEnemies' = <<r[2]>>
  /\ pc' = "collided"
  /\ UNCHANGED <<critters, reset_request, reset_param, elapsed, uncaught, rects>>

\* enemy.collide(player)
EnemyCollide ==
  /\ pc = "placed"
  /\ LET r == collide(allEnemies[1], player)
     IN allEnemies' = <<r[1]>> /\ player' = r[2]
  /\ pc' = "collided"
  /\ UNCHANGED <<critters, reset_request, reset_param, elapsed, uncaught, rects>>

NextCollide == PlayerCollide \/ EnemyCollide

SpecCollide == InitCollide /\ [][NextCollide]_vars

----------------------------------------------------------------------------
(* A Text, and a MultiText, exercised on its own: update(dt) calls with any *)
(* positive dt, also after it has died                                      *)

\* the dt that takes the size of a new Text to exactly its maximum: 22/70 s
TextCapDt == ((TextMaxSize - TextStartSize) * UnitsPerSecond) \div TextSpeed

\* the positive dt a Text is fed
TextDts == {TextCapDt} \cup (Dts \ {0})

InitText ==
  /\ pc = "text"
  /\ allEnemies = <<>>
  /\ player = NoPlayer
  /\ critters \in {<<NewText(str)>> : str \in {"REACH", "THAT", "WATER"}}
  /\ reset_request = FALSE
  /\ reset_param = "undefined"
  /\ elapsed = 0
  /\ uncaught = "none"
  /\ rects = NoRects

TextUpdate ==
  /\ pc = "text"
  /\ \E dt \in TextDts : critters' = <<Text_update(critters[1], dt)>>
  /\ UNCHANGED <<pc, allEnemies, player, reset_request, reset_param, elapsed,
               uncaught, rects>>

NextText == TextUpdate

SpecText == InitText /\ [][NextText]_vars

\* the lists of strings a MultiText is constructed from
MessageLists == {<<>>, <<"REACH">>, <<"REACH", "THAT">>}

InitMultiText ==
  /\ pc = "multitext"
  /\ allEnemies = <<>>
  /\ player = NoPlayer
  /\ critters \in {<<NewMultiText(strings)>> : strings \in MessageLists}
  /\ reset_request = FALSE
  /\ reset_param = "undefined"
  /\ elapsed = 0
  /\ uncaught = "none"
  /\ rects = NoRects

MultiTextUpdate ==
  /\ pc = "multitext"
  /\ \E dt \in TextDts : critters' = <<MultiText_update(critters[1], dt)>>
  /\ UNCHANGED <<pc, allEnemies, player, reset_request, reset_param, elapsed,
               uncaught, rects>>

NextMultiText == MultiTextUpdate

SpecMultiText == InitMultiText /\ [][NextMultiText]_vars

----------------------------------------------------------------------------
(* One enemy and a player moved by the same ticks, as updateEntities moves them: *)
(* ticks of a few milliseconds, where speed * dt is below or just above one      *)
(* pixel, and one long tick in which a Wild enemy decides                        *)

\* the short ticks, in milliseconds: 222 * 0.004 < 1 < 222 * 0.005
ShortTicksMs == {1, 4, 5}

MotionDts == {ms * UnitsPerMs : ms \in ShortTicksMs} \cup {LongTick}

InitMotion ==
  /\ pc = "motion"
  /\ allEnemies \in {<<NewEnemy(type, Px(x), Px(rows[2]))>> :
                       type \in EnemyTypes, x \in SpawnXs}
  /\ player \in {[NewPlayer(Px(202), Px(rows[6])) EXCEPT !.moves = mv] :
                   mv \in [Movements -> BOOLEAN]}
  /\ critters = <<>>
  /\ reset_request = FALSE
  /\ reset_param = "undefined"
  /\ elapsed = 0
  /\ uncaught = "none"
  /\ rects = NoRects

\* enemy.update(dt), then player.update(dt), with the dt of one tick
MotionTick ==
  /\ pc = "motion"
  /\ \E dt \in MotionDts : \E chance \in Rolls :
       /\ IF dt = LongTick
            THEN elapsed < LongTick
            ELSE (elapsed % LongTick) + dt <= MaxMotionMs * UnitsPerMs
       /\ ~WildDecides(allEnemies[1], dt) => chance = 0
       /\ allEnemies' = <<Enemy_update(allEnemies[1], dt, chance)>>
       /\ player' = Player_update(player, dt)
       /\ elapsed' = elapsed + dt
  /\ UNCHANGED <<pc, critters, reset_request, reset_param, uncaught, rects>>

NextMotion == MotionTick

SpecMotion == InitMotion /\ [][NextMotion]_vars

----------------------------------------------------------------------------
(* A Bonus and a player, with no enemies, under ticks of updateEntities with a  *)
(* strictly positive dt; the engine runs a tick on every animation frame, hence *)
(* the fairness                                                                 *)

PositiveDts == Dts \ {0}

\* where the player is when the Bonus appears, and what it is doing
BonusPlayerXs == {100, 202}

BonusPlayerYs == {rows[4], rows[5], rows[6]}

BonusPlayerMoves ==
  {[m \in Movements |-> m \in held] : held \in {{}, {"up"}, {"left"}}}

InitBonus ==
  /\ pc = "bonus"
  /\ allEnemies = <<>>
  /\ player \in {[NewPlayer(Px(x), Px(y)) EXCEPT !.moves = mv] :
                   x \in BonusPlayerXs, y \in BonusPlayerYs, mv \in BonusPlayerMoves}
  /\ critters = <<NewBonus(Px(100), Px(100))>>
  /\ reset_request = FALSE
  /\ reset_param = "undefined"
  /\ elapsed = 0
  /\ uncaught = "none"
  /\ rects = NoRects

BonusTick ==
  /\ pc = "bonus"
  /\ \E dt \in PositiveDts :
       LET r == updateEntities(dt, <<>>)
       IN /\ player' = r.player
          /\ critters' = r.critters
  /\ UNCHANGED <<pc, allEnemies, reset_request, reset_param, elapsed, uncaught,
               rects>>

NextBonus == BonusTick

SpecBonus == InitBonus /\ [][NextBonus]_vars /\ WF_vars(NextBonus)

----------------------------------------------------------------------------
(* One ephemeral actor of any class exercised on its own: update(dt) is called *)
(* on it directly, with any dt >= 0, whether it is alive or not                *)

ActorDts == Dts \cup {TextCapDt}

\* a Text is the one actor that is not given a kind here
IsText(a) == "state_" \in DOMAIN a

\* a.isAlive()
Actor_isAlive(a) == IF IsText(a) THEN Text_isAlive(a) ELSE isAlive(a)

InitActor ==
  /\ pc = "actor"
  /\ allEnemies = <<>>
  /\ \/ /\ player = NoPlayer
        /\ critters \in {<<NewText("REACH")>>}
                         \cup {<<NewMultiText(strings)>> : strings \in MessageLists}
                         \cup {<<NewChronos(t)>> : t \in 1..MaxTarget}
     \/ /\ player \in {NewPlayer(Px(x), Px(rows[6])) : x \in BonusPlayerXs}
        /\ critters = <<NewBonus(Px(100), Px(100))>>
  /\ reset_request = FALSE
  /\ reset_param = "undefined"
  /\ elapsed = 0
  /\ uncaught = "none"
  /\ rects = NoRects

\* critters[0].update(dt), with no test of isAlive() before it
ActorUpdate ==
  /\ pc = "actor"
  /\ (~IsText(critters[1]) /\ critters[1].kind = "Chronos") =>
       critters[1].fired < MaxFired
  /\ player # NoPlayer => player.speed < PlayerSpeed * 2 ^ MaxDoublings
  /\ \E dt \in ActorDts :
       /\ elapsed + dt <= MaxActorSeconds * UnitsPerSecond
       /\ elapsed' = elapsed + dt
       /\ IF IsText(critters[1])
            THEN /\ critters' = <<Text_update(critters[1], dt)>>
                 /\ UNCHANGED <<player, reset_request, reset_param>>
            ELSE LET st == Thing_update(critters[1], dt,
                             [player |-> player, survivors |-> <<>>,
                              reset_request |-> reset_request,
                              reset_param |-> reset_param])
                 IN /\ critters' = st.survivors
                    /\ player' = st.player
                    /\ reset_request' = st.reset_request
                    /\ reset_param' = st.reset_param
  /\ UNCHANGED <<pc, allEnemies, uncaught, rects>>

NextActor == ActorUpdate

SpecActor == InitActor /\ [][NextActor]_vars

----------------------------------------------------------------------------
(* Claims *)

\* C1: whatever handleInput and update(dt >= 0) calls a Player receives, at either
\* speed, its tight box lies inside its screen bounds after every update (the
\* start position lies inside, and handleInput moves nothing, so: in every state).
C1_PlayerInsideScreenBounds ==
  /\ screenBounds.x <= player.x + rectBounds(player).left
  /\ player.x + rectBounds(player).right <= screenBounds.width
  /\ screenBounds.y <= player.y + rectBounds(player).top
  /\ player.y + rectBounds(player).bottom <= screenBounds.height

\* C1 witness: moving up and left at the doubled speed, an update has clamped the
\* player into the top left corner
C1_Witness ==
  /\ player.speed = 2 * PlayerSpeed
  /\ player.moves.left /\ player.moves.up
  /\ player.x + rectBounds(player).left = screenBounds.x
  /\ player.y + rectBounds(player).top = screenBounds.y

\* C7: for every Chronos and every update(dt), dt >= 0: isAlive() is true exactly
\* while time_ < targetTime_; an update after which time_ < targetTime_ does not
\* invoke the callback; an update after which time_ >= targetTime_ (the first such
\* update included) invokes it, here request_reset().
C7_ChronosAliveAndCallback ==
  [][pc = "chronos" =>
       LET c == critters[1]
           c1 == critters'[1]
       IN /\ Chronos_isAlive(c1) <=> (c1.time_ < c1.targetTime_)
          /\ c1.time_ < c1.targetTime_ =>
               (c1.fired = c.fired /\ reset_request' = reset_request)
          /\ c1.time_ >= c1.targetTime_ =>
               (c1.fired = c.fired + 1 /\ reset_request')]_vars

\* C7 witness: the first update after which the Chronos is dead has brought time_
\* to exactly targetTime_, and the callback has run once
C7_Witness ==
  /\ pc = "chronos"
  /\ critters[1].time_ = critters[1].targetTime_
  /\ critters[1].fired = 1
  /\ reset_request

\* the indices of the actors of one kind in a list of critters
OfKind(cs, kind) == {i \in 1..Len(cs) : cs[i].kind = kind}

\* the list of critters holds a Chronos whose time is up
ChronosExpired(cs) ==
  \E i \in OfKind(cs, "Chronos") : cs[i].time_ >= cs[i].targetTime_

\* the first message of the MultiText in a list of critters
FirstMessages(cs) == {cs[i].texts[1].text : i \in OfKind(cs, "MultiText")}

\* the positions and types of a roster, whatever the hit flags
Unmarked(es) == [i \in 1..Len(es) |-> unhit(es[i])]

TimeUp == ChronosTarget * UnitsPerSecond

\* C2: when a tick's collision pass is over, a reset is pending iff in that tick the
\* player was marked hit, or had reached the water, or the Chronos (still in the
\* list until the next tick) reached its target; and a reset is never requested by
\* a step other than a tick's update or collision pass (a key event, the render).
C2_ResetPendingIffEvent ==
  /\ [](pc = "render" =>
         (reset_request <=>
            (isHit(player) \/ reachedWater(player) \/ ChronosExpired(critters))))
  /\ [][(~reset_request /\ reset_request') => pc \in {"update", "collide"}]_vars

\* C2 witness: after a collision pass a reset is pending for the timer alone
C2_Witness ==
  /\ pc = "render"
  /\ reset_request
  /\ ~isHit(player) /\ ~reachedWater(player)
  /\ ChronosExpired(critters)

\* C3: a requested reset stays pending, and is not applied, for the rest of its
\* tick: the update that requests it leaves the expired Chronos in the list, the
\* collision pass changes hit flags only and the render nothing. It is applied by
\* main at the start of the next tick, before update: a fresh player, a fresh
\* Chronos, pending flag false and reset_param null. Without a request main, and
\* at any time a key event, replaces nothing.
C3_ResetAtStartOfNextTick ==
  [][/\ (pc \in {"update", "collide", "render"} /\ reset_request) => reset_request'
     /\ (pc = "update" /\ reset_request') => ChronosExpired(critters')
     /\ pc = "collide" =>
          /\ Unmarked(allEnemies') = Unmarked(allEnemies)
          /\ unhit(player') = unhit(player)
          /\ critters' = critters
     /\ pc = "render" => UNCHANGED <<allEnemies, player, critters>>
     /\ (pc = "waiting" /\ pc' = "update" /\ reset_request) =>
          /\ ~reset_request'
          /\ reset_param' = "null"
          /\ player' = NewPlayer(Px(202), Px(405))
          /\ critters'[1] = NewChronos(ChronosTarget)
          /\ elapsed' = 0
     /\ (pc = "waiting" /\ pc' = "update" /\ ~reset_request) =>
          UNCHANGED <<allEnemies, player, critters, reset_request, reset_param>>
     /\ (pc = "waiting" /\ pc' = "waiting") =>
          UNCHANGED <<allEnemies, critters, reset_request, reset_param>>]_vars

\* C3 witness: main has just applied a pending reset and is about to update
C3_Witness ==
  /\ pc = "update"
  /\ reset_param = "null"
  /\ ~reset_request
  /\ elapsed = 0
  /\ player = NewPlayer(Px(202), Px(405))

\* C4: while a reset is pending after the collision pass, its parameter is true iff
\* the player has reached the water (timer expired or not); it is false for a hit
\* and undefined for the timer alone. The MultiText a reset creates starts with
\* 'CONGRATULATIONS!' iff the parameter was true, else, as after the initial
\* reset, with 'REACH'.
C4_SuccessIffReachedWater ==
  /\ []((pc \in {"render", "waiting"} /\ reset_request) =>
          reset_param = IF reachedWater(player) THEN "true"
                        ELSE IF isHit(player) THEN "false" ELSE "undefined")
  /\ [][(pc = "waiting" /\ pc' = "update" /\ reset_request) =>
          FirstMessages(critters') =
            IF reachedWater(player) THEN {"CONGRATULATIONS!"} ELSE {"REACH"}]_vars
  /\ [][(pc = "loading" /\ pc' = "update") => FirstMessages(critters') = {"REACH"}]_vars

\* C4 witness: a reset with success = true has just been applied
C4_Witness ==
  /\ pc = "update"
  /\ elapsed = 0
  /\ FirstMessages(critters) = {"CONGRATULATIONS!"}

\* C5: the phases of a tick follow each other in the order reset (if pending),
\* update, collision pass, render, each once: a pending reset is consumed only by
\* the step that enters update; the update moves things and evaluates no collision
\* (hit flags are unchanged); the collision pass follows it and moves nothing; the
\* render follows the collision pass, ends the tick and changes no game state.
C5_PhaseOrder ==
  [][/\ pc = "loading" => pc' \in {"loading", "update"}
     /\ pc = "waiting" => pc' \in {"waiting", "update"}
     /\ (reset_request /\ ~reset_request') => (pc = "waiting" /\ pc' = "update")
     /\ pc = "update" =>
          /\ pc' = "collide"
          /\ isHit(player') = isHit(player)
          /\ \A i \in 1..Len(allEnemies) : isHit(allEnemies'[i]) = isHit(allEnemies[i])
     /\ pc = "collide" =>
          /\ pc' = "render"
          /\ Unmarked(allEnemies') = Unmarked(allEnemies)
          /\ unhit(player') = unhit(player)
          /\ critters' = critters
     /\ pc = "render" =>
          /\ pc' = "waiting"
          /\ UNCHANGED <<allEnemies, player, critters, reset_request, reset_param,
                         elapsed>>]_vars

\* C5 witness: a tick that began by applying a reset has gone through update,
\* collision pass and render
C5_Witness ==
  /\ pc = "waiting"
  /\ reset_param = "null"
  /\ elapsed > 0

C8_ChronosFiresOnce ==
  /\ [](pc # "loading" =>
          /\ OfKind(critters, "Chronos") = {1}
          /\ critters[1].fired =
               IF critters[1].time_ >= critters[1].targetTime_ THEN 1 ELSE 0)
  /\ [](pc = "update" => Chronos_isAlive(critters[1]) /\ critters[1].fired = 0)
  /\ [][(pc = "update" /\ pc' = "collide") =>
          /\ critters'[1].fired - critters[1].fired \in {0, 1}
          /\ critters'[1].fired = critters[1].fired + 1 <=>
               /\ critters[1].time_ < critters[1].targetTime_
               /\ critters'[1].time_ >= critters'[1].targetTime_]_vars

\* C8 witness: the tick is over and its update made the Chronos invoke its callback
C8_Witness ==
  /\ pc = "waiting"
  /\ OfKind(critters, "Chronos") = {1}
  /\ critters[1].fired = 1
  /\ ~Chronos_isAlive(critters[1])

\* C9: the game never continues past 10 seconds of simulated time since the last
\* reset: the update in which the accumulated time first reaches 10 seconds leaves
\* a reset requested (with no argument when nothing else had requested one), the
\* request stays pending for the rest of the tick, the next tick starts with the
\* reset (the accumulated time is 0 again and the Chronos is new), and no update
\* ever starts with 10 seconds or more accumulated.
C9_TimeoutForcesReset ==
  /\ [](elapsed >= TimeUp => reset_request)
  /\ [](pc = "update" => elapsed < TimeUp)
  /\ [][(pc = "update" /\ pc' = "collide" /\ elapsed < TimeUp /\ elapsed' >= TimeUp) =>
          /\ reset_request'
          /\ ~reset_request => reset_param' = "undefined"]_vars
  /\ [][(pc = "waiting" /\ pc' = "update" /\ elapsed >= TimeUp) =>
          /\ elapsed' = 0
          /\ ~reset_request'
          /\ critters'[1] = NewChronos(ChronosTarget)]_vars

\* C9 witness: the tick is over, 10 seconds have accumulated, the player is neither
\* hit nor in the water, and the reset the Chronos requested is pending
C9_Witness ==
  /\ pc = "waiting"
  /\ elapsed >= TimeUp
  /\ ~isHit(player)
  /\ ~reachedWater(player)
  /\ reset_request
  /\ reset_param = "undefined"

\* C10: when a tick's update updates a live Bonus and the Bonus, where its fall
\* step has put it, intersects the player, that same update leaves the player's
\* speed at exactly twice what it was and the Bonus not alive.
C10_BonusDoublesSpeedAndDies ==
  [][(pc = "update" /\ pc' = "collide") =>
       \A i \in OfKind(critters, "Bonus") :
          Bonus_isAlive(critters[i]) =>
            /\ OfKind(critters', "Bonus") # {}
            /\ \A j \in OfKind(critters', "Bonus") :
                 BoxesIntersect(critters'[j], player') =>
                   /\ player'.speed = 2 * player.speed
                   /\ ~Bonus_isAlive(critters'[j])]_vars

\* C10 witness: an update has just ended with the Bonus on the player: the Bonus is
\* not alive and the player moves at twice the speed it was constructed with
C10_Witness ==
  /\ pc = "collide"
  /\ player.speed = 2 * PlayerSpeed
  /\ \E j \in OfKind(critters, "Bonus") :
       /\ BoxesIntersect(critters[j], player)
       /\ ~Bonus_isAlive(critters[j])
       /\ critters[j].y <= screenBounds.height

\* C11: the speed of a Wild enemy is within [100, 1000] after every update,
\* whatever the dt values and the rolls, runs of increases and of decreases
\* included.
C11_WildSpeedWithinLimits ==
  allEnemies[1].kind = "Wild" =>
    /\ allEnemies[1].speed >= WildMinSpeed
    /\ allEnemies[1].speed <= WildMaxSpeed

\* C11 witness: a Wild enemy at the maximum speed, which it only gets by an
\* increase that was clamped (its speeds below are 222 + 100 k)
C11_Witness ==
  /\ allEnemies[1].kind = "Wild"
  /\ allEnemies[1].speed = WildMaxSpeed

\* the decisions a Wild enemy has taken: each one takes 2 seconds off the clock
\* that every update adds its dt to
DecisionsFired ==
  (elapsed - allEnemies[1].time_) \div (WildDecisionTime * UnitsPerSecond)

\* C12 as stated: when the dt values fed to a Wild enemy whose clock started at 0
\* sum to 2 seconds, exactly one decision has fired.
C12_OneDecisionPerWindow ==
  (allEnemies[1].kind = "Wild" /\ elapsed = WildDecisionTime * UnitsPerSecond) =>
    DecisionsFired = 1

\* C12 as amended: as long as the dt values fed to a Wild enemy whose clock
\* started at 0 sum to at most 2 seconds no decision has fired; an update fires
\* at most one decision, and fires one iff it takes the clock beyond 2 seconds,
\* so the first decision fires in the update in which the sum first exceeds
\* 2 seconds.
C12_DecisionWhenClockExceeds ==
  /\ [](allEnemies[1].kind = "Wild" =>
          /\ (elapsed - allEnemies[1].time_) % (WildDecisionTime * UnitsPerSecond) = 0
          /\ elapsed <= WildDecisionTime * UnitsPerSecond => DecisionsFired = 0)
  /\ [][allEnemies[1].kind = "Wild" =>
          /\ DecisionsFired' - DecisionsFired \in {0, 1}
          /\ DecisionsFired' = DecisionsFired + 1 <=>
               allEnemies[1].time_ + (elapsed' - elapsed) >
                 WildDecisionTime * UnitsPerSecond
          /\ (elapsed <= WildDecisionTime * UnitsPerSecond
                /\ elapsed' > WildDecisionTime * UnitsPerSecond) =>
               DecisionsFired' = 1]_vars

\* C12 witness: the first decision of a Wild enemy has fired, half a second
\* after the 2 seconds
C12_Witness ==
  /\ allEnemies[1].kind = "Wild"
  /\ elapsed = WildDecisionTime * UnitsPerSecond + DtStep
  /\ DecisionsFired = 1

\* the position an update moves the enemy to before it looks at the edges: the
\* dt of the update is what it adds to the simulated time
AdvancedRight == allEnemies[1].x + FloorDisplacement(allEnemies[1].speed, elapsed' - elapsed)

\* C13: an update of a Bouncing enemy that is going right sets goingRight to false
\* and x to exactly W when the advanced position has x + rectBounds.left > W;
\* otherwise it leaves goingRight true and x at the advanced position (at W
\* exactly too).
C13_BounceAtRightEdge ==
  [][(allEnemies[1].kind = "Bouncing" /\ allEnemies[1].goingRight) =>
       IF AdvancedRight + rectBounds(allEnemies[1]).left > screenBounds.width
         THEN ~allEnemies'[1].goingRight /\ allEnemies'[1].x = screenBounds.width
         ELSE allEnemies'[1].goingRight /\ allEnemies'[1].x = AdvancedRight]_vars

\* C13 witness: a Bouncing enemy that has turned at the right edge and has not
\* moved since
C13_Witness ==
  /\ allEnemies[1].kind = "Bouncing"
  /\ ~allEnemies[1].goingRight
  /\ allEnemies[1].x = screenBounds.width
  /\ elapsed > 0

\* C14: the x of a Wrapping enemy spawned within [0, W] is within [0, W] after
\* every update, and an update leaves x at 0 if the advanced position is beyond W
\* and at the advanced position otherwise (at W exactly it does not wrap).
C14_WrapBeyondRightEdge ==
  /\ [](allEnemies[1].kind = "Wrapping" =>
          allEnemies[1].x >= 0 /\ allEnemies[1].x <= screenBounds.width)
  /\ [][allEnemies[1].kind = "Wrapping" =>
          allEnemies'[1].x =
            IF AdvancedRight > screenBounds.width THEN 0 ELSE AdvancedRight]_vars

\* C14 witness: a Wrapping enemy has re-entered at 0 (none is constructed there)
C14_Witness ==
  /\ allEnemies[1].kind = "Wrapping"
  /\ allEnemies[1].x = 0
  /\ elapsed > 0

\* a step that applies a reset: init, or main with a request pending
ResetStep ==
  \/ pc = "loading" /\ pc' = "update"
  \/ pc = "waiting" /\ pc' = "update" /\ reset_request

\* the roster that the draws d of one reset determine: enemy i is in row i, of
\* the type its first draw selects, at the x its second draw selects (100 for 0)
SpawnedRoster(d) ==
  [i \in 1..3 |->
     [kind |-> <<"Wrapping", "Bouncing", "Wild">>[(d[i].type * 3) \div RandomSteps + 1],
      x |-> IF (d[i].x * CanvasWidth) \div RandomSteps = 0
              THEN Px(100)
              ELSE Px((d[i].x * CanvasWidth) \div RandomSteps),
      y |-> Px(<<60, 146, 226>>[i]),
      speed |-> 222, hit_ |-> FALSE, goingRight |-> TRUE, time_ |-> 0]]

\* C15: from the first reset on the roster holds exactly 3 enemies, the i-th in
\* row i (y = 60, 146, 226), each Wrapping, Bouncing or Wild; and every reset,
\* whatever the state it replaces and whatever its success argument, leaves the
\* roster that its random draws determine, every x in [0, canvas width).
C15_RosterOfThreeFromDraws ==
  /\ [](pc # "loading" =>
          /\ Len(allEnemies) = 3
          /\ \A i \in 1..3 :
               /\ allEnemies[i].y = Px(<<60, 146, 226>>[i])
               /\ allEnemies[i].kind \in {"Wrapping", "Bouncing", "Wild"})
  /\ [][ResetStep =>
          /\ allEnemies' \in {SpawnedRoster(d) : d \in ResetDraws}
          /\ \A i \in 1..3 :
               allEnemies'[i].x >= 0 /\ allEnemies'[i].x < Px(CanvasWidth)]_vars

\* C15 witness: main has just applied a reset that replaced a roster that had
\* belonged to an earlier session; one enemy is at the default x
C15_Witness ==
  /\ pc = "update"
  /\ elapsed = 0
  /\ reset_param = "null"
  /\ allEnemies \in {SpawnedRoster(d) : d \in ResetDraws}
  /\ \E i \in 1..3 : allEnemies[i].x = Px(100)
  /\ FirstMessages(critters) = {"REACH"}

\* C16: a key event that arrives while the player does not exist yet is dropped
\* without an error: no listener ever leaves an error uncaught, and the player
\* still does not exist after the event.
C16_KeyBeforePlayerDropped ==
  /\ uncaught = "none"
  /\ pc = "loading" => player = NoPlayer

\* C17: rectsIntersect is symmetric: on well-formed boxes a and b,
\* rectsIntersect(a, b) and rectsIntersect(b, a) return the same.
C17_IntersectSymmetric ==
  rects.called = {"ab", "ba"} => rects.ab = rects.ba

\* C17 witness: both orders were evaluated on two different boxes that are apart
\* on the horizontal axis only
C17_Witness ==
  /\ rects.called = {"ab", "ba"}
  /\ ~rects.ab
  /\ ~rects.ba
  /\ rects.b.right < rects.a.left
  /\ rects.a.top = rects.b.top
  /\ rects.a.bottom = rects.b.bottom

\* C18: on well-formed boxes rectsIntersect(a, b) is true iff the closed boxes
\* have a point in common, i.e. their closed intervals overlap on both axes: it is
\* true for a box against itself, true when the boxes only touch along an edge
\* (a.right = b.left), and false when there is a gap of 1 pixel or more between
\* them on an axis.
C18_IntersectIffClosedOverlap ==
  "ab" \in rects.called =>
    /\ rects.ab <=>
         /\ \E x \in 0..MaxCoord :
              /\ rects.a.left <= x /\ x <= rects.a.right
              /\ rects.b.left <= x /\ x <= rects.b.right
         /\ \E y \in 0..MaxCoord :
              /\ rects.a.top <= y /\ y <= rects.a.bottom
              /\ rects.b.top <= y /\ y <= rects.b.bottom
    /\ rects.a = rects.b => rects.ab
    /\ (rects.a.right = rects.b.left /\ rects.a.top = rects.b.top
          /\ rects.a.bottom = rects.b.bottom) => rects.ab
    /\ (rects.b.left - rects.a.right >= 1 \/ rects.a.left - rects.b.right >= 1
          \/ rects.b.top - rects.a.bottom >= 1 \/ rects.a.top - rects.b.bottom >= 1) =>
         ~rects.ab

\* C18 witness: two boxes of positive width that only touch along the edge
\* a.right = b.left were found to intersect
C18_Witness ==
  /\ "ab" \in rects.called
  /\ rects.ab
  /\ rects.a.right = rects.b.left
  /\ rects.a.left < rects.a.right
  /\ rects.b.left < rects.b.right

\* the elements of a sequence
Range(seq) == {seq[i] : i \in 1..Len(seq)}

\* the kinds of the actors in a list of critters
KindsIn(cs) == {cs[i].kind : i \in 1..Len(cs)}

\* the kinds of the actors in a list of critters that are alive
LiveKindsIn(cs) == {cs[i].kind : i \in {j \in 1..Len(cs) : isAlive(cs[j])}}

\* C19: the list of critters never holds two actors of a kind, and a tick's update
\* leaves in it exactly the actors that were alive when the update started: an
\* actor that was dead is dropped, without being updated, and one that was alive
\* stays, also when that update made it die. The list is then left alone until
\* the next tick: by the collision pass, by the render (which still draws the
\* dead actor), by key events and by a main that has no reset to apply.
C19_DeadActorLeavesNextTick ==
  /\ [](\A i, j \in 1..Len(critters) :
          critters[i].kind = critters[j].kind => i = j)
  /\ [][(pc = "update" /\ pc' = "collide") =>
          /\ KindsIn(critters') = LiveKindsIn(critters)
          /\ \A i \in 1..Len(critters) :
               ~isAlive(critters[i]) => critters[i] \notin Range(critters')]_vars
  /\ [][(pc \in {"collide", "render"}
          \/ (pc = "waiting" /\ (pc' = "waiting" \/ ~reset_request))) =>
          critters' = critters]_vars

\* C19 witness: the tick is being rendered with a Bonus in the list that its
\* update of this tick has made die; no reset is pending
C19_Witness ==
  /\ pc = "render"
  /\ ~reset_request
  /\ \E i \in OfKind(critters, "Bonus") : ~Bonus_isAlive(critters[i])
  /\ LiveKindsIn(critters) = {"Chronos", "MultiText"}

\* the session state right after a reset, but for the enemies and the messages
FreshSession ==
  /\ player = [kind |-> "Player", x |-> Px(202), y |-> Px(405), speed |-> 333,
               hit_ |-> FALSE,
               moves |-> [m \in {"left", "right", "up", "down"} |-> FALSE]]
  /\ Len(critters) = 3
  /\ critters[1] = [kind |-> "Chronos", time_ |-> 0, targetTime_ |-> 10 * UnitsPerSecond,
                    fired |-> 0]
  /\ Chronos_isAlive(critters[1])
  /\ critters[2].kind = "MultiText"
  /\ critters[2].idx = 0
  /\ \A k \in 1..Len(critters[2].texts) :
       /\ critters[2].texts[k].x = 0
       /\ critters[2].texts[k].size = Px(28)
       /\ critters[2].texts[k].state_ = 0
  /\ MultiText_isAlive(critters[2])
  /\ critters[3] = [kind |-> "Bonus", x |-> Px(100), y |-> Px(100), speed |-> 100,
                    hit_ |-> FALSE, alive_ |-> TRUE]
  /\ Bonus_isAlive(critters[3])

\* C20: every applied reset (the initial one, and those after a hit, the goal or
\* the timeout) leaves a new player at (202, 405) with speed 333, not hit and with
\* the four input flags false, and a list of exactly a Chronos (time 0, target 10
\* seconds), a MultiText at its first message and a Bonus at (100, 100), all three
\* alive, whatever the session before had come to.
C20_ResetRebuildsSession ==
  [][ResetStep => FreshSession']_vars

\* C20 witness: a reset has just replaced a session (its parameter is cleared)
\* and the new session is as constructed
C20_Witness ==
  /\ pc = "update"
  /\ reset_param = "null"
  /\ elapsed = 0
  /\ FreshSession
  /\ \A i \in 1..Len(allEnemies) : allEnemies[i].time_ = 0

\* some box of a and some box of b have a point in common
SomePairOverlaps(a, b) ==
  \E i \in 1..Len(boundingBoxes(a)) : \E j \in 1..Len(boundingBoxes(b)) :
     LET ra == boundingBoxes(a)[i]
         rb == boundingBoxes(b)[j]
     IN /\ ra.left <= rb.right /\ rb.left <= ra.right
        /\ ra.top <= rb.bottom /\ rb.top <= ra.bottom

\* C21: a.collide(b), with either of the player and the enemy as a, leaves both
\* hit if some box of the one overlaps some box of the other (the enemy has two
\* boxes when it wraps) and leaves both hit flags as they were if none does; it
\* changes nothing but the hit flags.
C21_CollideMarksBothOrNeither ==
  [][(pc = "placed" /\ pc' = "collided") =>
       /\ IF SomePairOverlaps(player, allEnemies[1])
            THEN isHit(player') /\ isHit(allEnemies'[1])
            ELSE /\ isHit(player') = isHit(player)
                 /\ isHit(allEnemies'[1]) = isHit(allEnemies[1])
       /\ unhit(player') = unhit(player)
       /\ unhit(allEnemies'[1]) = unhit(allEnemies[1])]_vars

\* C21 witness: the collide is over, the two do not overlap, and of the two flags
\* one is still set and the other still clear
C21_Witness ==
  /\ pc = "collided"
  /\ ~SomePairOverlaps(player, allEnemies[1])
  /\ isHit(allEnemies[1])
  /\ ~isHit(player)

\* the boxes of e are as documented: at least one, each with left <= right and
\* top <= bottom; a second one exactly for a Wrapping enemy whose right edge is
\* beyond the right edge of the screen, and then it is the strip from 0 to
\* x + rectBounds.right - screenBounds.width with the top and bottom of the first
BoxesAsDocumented(e) ==
  LET boxes == boundingBoxes(e)
      beyond == e.x + rectBounds(e).right - screenBounds.width
  IN /\ Len(boxes) >= 1
     /\ \A i \in 1..Len(boxes) :
          boxes[i].left <= boxes[i].right /\ boxes[i].top <= boxes[i].bottom
     /\ Len(boxes) > 1 <=> (e.kind = "Wrapping" /\ beyond > 0)
     /\ Len(boxes) > 1 =>
          /\ Len(boxes) = 2
          /\ boxes[2] = [left |-> 0, top |-> boxes[1].top,
                         right |-> beyond, bottom |-> boxes[1].bottom]

\* the box of the player overlaps the second box of the enemy
PlayerOnStrip ==
  /\ Len(boundingBoxes(allEnemies[1])) > 1
  /\ LET strip == boundingBoxes(allEnemies[1])[2]
         own == boundingBoxes(player)[1]
     IN /\ own.left <= strip.right /\ strip.left <= own.right
        /\ own.top <= strip.bottom /\ strip.top <= own.bottom

\* C22: boundingBoxes() returns at least one box, each with left <= right and
\* top <= bottom; it returns a second box exactly for a Wrapping enemy with
\* x + rectBounds.right > screenBounds.width, which is the strip at the left edge
\* as wide as the part beyond the right edge; and a collide of the player and an
\* enemy whose strip the player's box overlaps leaves the player hit.
C22_BoxesAndWrapStrip ==
  /\ [](pc \in {"placed", "collided"} =>
          BoxesAsDocumented(player) /\ BoxesAsDocumented(allEnemies[1]))
  /\ [][(pc = "placed" /\ pc' = "collided" /\ PlayerOnStrip) =>
          isHit(player') /\ isHit(allEnemies'[1])]_vars

\* C22 witness: a collide has marked a player that stands at the left edge and an
\* enemy whose first box is far from it, at the right edge
C22_Witness ==
  /\ pc = "collided"
  /\ PlayerOnStrip
  /\ boundingBoxes(player)[1].right < boundingBoxes(allEnemies[1])[1].left
  /\ isHit(player)
  /\ isHit(allEnemies[1])

\* C23: under update(dt) calls with positive dt a Text grows to its cap, then
\* slides, then is dead, and it does reach dead whatever the positive dt values
\* are. For that, a Text that is alive must never be left as it is by an update
\* with a positive dt: one that is, stays alive for ever.
C23_LiveTextMakesProgress ==
  Text_isAlive(critters[1]) =>
    \A dt \in TextDts : Text_update(critters[1], dt) # critters[1]

\* C24: a MultiText shows its Texts in list order: an update moves the index on,
\* by one, iff the MultiText is alive and its current Text is dead when the update
\* starts; otherwise an update changes at most the current Text; the index is
\* never beyond the length of the list; the MultiText is alive exactly while the
\* index is within the list; and one made from an empty list is dead from its
\* construction and no update changes it.
C24_MultiTextInListOrder ==
  /\ [](/\ critters[1].idx <= Len(critters[1].texts)
        /\ MultiText_isAlive(critters[1]) <=>
             (critters[1].idx >= 0 /\ critters[1].idx < Len(critters[1].texts))
        /\ Len(critters[1].texts) = 0 =>
             (critters[1].idx = -1 /\ ~MultiText_isAlive(critters[1])))
  /\ [][/\ critters'[1].idx \in {critters[1].idx, critters[1].idx + 1}
        /\ critters'[1].idx = critters[1].idx + 1 <=>
             /\ MultiText_isAlive(critters[1])
             /\ ~Text_isAlive(critters[1].texts[critters[1].idx + 1])
        /\ critters'[1].idx = critters[1].idx + 1 =>
             critters'[1].texts = critters[1].texts
        /\ \A k \in 1..Len(critters[1].texts) :
             k # critters[1].idx + 1 => critters'[1].texts[k] = critters[1].texts[k]
        /\ ~MultiText_isAlive(critters[1]) => critters'[1] = critters[1]]_vars

\* C24 witness: a MultiText of two Texts has shown both, each to its death, and is
\* dead
C24_Witness ==
  /\ Len(critters[1].texts) = 2
  /\ critters[1].idx = 2
  /\ \A k \in 1..2 : ~Text_isAlive(critters[1].texts[k])
  /\ ~MultiText_isAlive(critters[1])

\* the position an update moves an enemy that is going left to, before it looks
\* at the edges
AdvancedLeft == allEnemies[1].x - FloorDisplacement(allEnemies[1].speed, elapsed' - elapsed)

\* C25 as stated: an update of a Bouncing enemy reverses goingRight and clamps x
\* (to W going right, to -rectBounds.right going left) exactly when the leading
\* edge of the advanced position is beyond the far boundary: x + rectBounds.right
\* > W going right, x + rectBounds.left < 0 going left.
C25_TurnWhenLeadingEdgeCrosses ==
  [][allEnemies[1].kind = "Bouncing" =>
       IF allEnemies[1].goingRight
         THEN (AdvancedRight + rectBounds(allEnemies[1]).right > screenBounds.width)
                <=> (~allEnemies'[1].goingRight
                       /\ allEnemies'[1].x = screenBounds.width)
         ELSE (AdvancedLeft + rectBounds(allEnemies[1]).left < 0)
                <=> (allEnemies'[1].goingRight
                       /\ allEnemies'[1].x = -rectBounds(allEnemies[1]).right)]_vars

\* C25 amended: the edge that counts is the trailing one. An update of a Bouncing
\* enemy reverses goingRight and clamps x exactly when the whole box of the
\* advanced position is beyond the far boundary: going right when x +
\* rectBounds.left > W (then x = W), going left when x + rectBounds.right < 0
\* (then x = -rectBounds.right); otherwise it keeps the flag and the advanced
\* position.
C25_TurnWhenTrailingEdgeCrosses ==
  [][allEnemies[1].kind = "Bouncing" =>
       IF allEnemies[1].goingRight
         THEN IF AdvancedRight + rectBounds(allEnemies[1]).left > screenBounds.width
                THEN ~allEnemies'[1].goingRight
                       /\ allEnemies'[1].x = screenBounds.width
                ELSE allEnemies'[1].goingRight /\ allEnemies'[1].x = AdvancedRight
         ELSE IF AdvancedLeft + rectBounds(allEnemies[1]).right < 0
                THEN allEnemies'[1].goingRight
                       /\ allEnemies'[1].x = -rectBounds(allEnemies[1]).right
                ELSE ~allEnemies'[1].goingRight /\ allEnemies'[1].x = AdvancedLeft]_vars

\* C25 witness: a Bouncing enemy has turned at the right edge, gone all the way to
\* the left and turned there
C25_Witness ==
  /\ allEnemies[1].kind = "Bouncing"
  /\ allEnemies[1].goingRight
  /\ allEnemies[1].x = -rectBounds(allEnemies[1]).right

\* what the edges make of the advanced position adv of enemy e travelling right
\* (or left): the wrap of a Wrapping enemy, the clamp of a Bouncing or Wild one
AfterEdges(e, right, adv) ==
  IF e.kind = "Wrapping"
    THEN IF adv > screenBounds.width THEN 0 ELSE adv
    ELSE IF right
      THEN IF adv + rectBounds(e).left > screenBounds.width
             THEN screenBounds.width ELSE adv
      ELSE IF adv + rectBounds(e).right < 0 THEN -rectBounds(e).right ELSE adv

\* the position enemy e has after a tick of dt in which it travels right (or
\* left) at speed px/s, if it moves by whole pixels
SnappedMove(e, right, speed, dt) ==
  AfterEdges(e, right,
             IF right THEN e.x + Px((speed * dt) \div UnitsPerSecond)
                      ELSE e.x - Px((speed * dt) \div UnitsPerSecond))

\* the sum, over the flags of one axis, of the unrounded speed * dt
SmoothShift(p, back, forth, dt) ==
  (IF p.moves[forth] THEN p.speed * dt ELSE 0)
    - (IF p.moves[back] THEN p.speed * dt ELSE 0)

\* C26: in a tick of dt an enemy moves, before the wrap or the bounce, by exactly
\* floor(speed * dt) pixels in its direction of travel (speed and direction being
\* those a Wild enemy has after a decision of that tick), so not at all when
\* speed * dt < 1; the player moves by the unrounded speed * dt for each flag that
\* is set, summed per axis, before it is held within the screen: left and right
\* together cancel.
C26_SnappedEnemiesSmoothPlayer ==
  [][/\ IF WildDecides(allEnemies[1], elapsed' - elapsed)
          THEN \E right \in BOOLEAN :
                 allEnemies'[1].x =
                   SnappedMove(allEnemies[1], right, allEnemies'[1].speed,
                               elapsed' - elapsed)
          ELSE allEnemies'[1].x =
                 SnappedMove(allEnemies[1],
                             allEnemies[1].kind = "Wrapping" \/ allEnemies[1].goingRight,
                             allEnemies[1].speed, elapsed' - elapsed)
     /\ allEnemies'[1].speed * (elapsed' - elapsed) < Px(1) =>
          allEnemies'[1].x = allEnemies[1].x
     /\ player' =
          forceScreenBounds(
            [player EXCEPT
               !.x = @ + SmoothShift(player, "left", "right", elapsed' - elapsed),
               !.y = @ + SmoothShift(player, "up", "down", elapsed' - elapsed)])
     /\ (player.moves.left /\ player.moves.right) => player'.x = player.x]_vars

\* C26 witness: after one tick of 5 ms an enemy of speed 222 is one pixel to the
\* right of where it was constructed (222 * 0.005 = 1.11), and the player, with up
\* and right set, is 1.665 pixels up and 1.665 pixels to the right of its start
C26_Witness ==
  /\ elapsed = 5 * UnitsPerMs
  /\ allEnemies[1].x = Px(394) + Px(1)
  /\ player.moves.up /\ player.moves.right
  /\ ~player.moves.down /\ ~player.moves.left
  /\ player.x = Px(202) + player.speed * 5 * UnitsPerMs
  /\ player.y = Px(rows[6]) - player.speed * 5 * UnitsPerMs

\* C27: a tick with a positive dt leaves the x of a live Bonus as it is and adds
\* speed * dt to its y; the Bonus is dead after the tick only if its y is then
\* beyond screenBounds.height or its box overlaps the player's box; and under such
\* ticks the Bonus is eventually dead and out of the roster.
C27_BonusFallsAndLeaves ==
  /\ [][\A i \in OfKind(critters, "Bonus") :
          Bonus_isAlive(critters[i]) =>
            /\ i \in OfKind(critters', "Bonus")
            /\ critters'[i].x = critters[i].x
            /\ \E dt \in PositiveDts :
                 critters'[i].y = critters[i].y + critters[i].speed * dt
            /\ ~Bonus_isAlive(critters'[i]) =>
                 \/ critters'[i].y > screenBounds.height
                 \/ BoxesIntersect(critters'[i], player')]_vars
  /\ <>(OfKind(critters, "Bonus") = {})

\* C27 witness: the Bonus has fallen past the player, who has not caught it, and
\* has left the roster
C27_Witness ==
  /\ pc = "bonus"
  /\ critters = <<>>
  /\ player.speed = PlayerSpeed

\* can the box of a player at height y (whole pixels) meet, vertically, the box of
\* an enemy in one of the three rows enemies are spawned in?
MeetsAnEnemyRow(y) ==
  \E r \in 2..4 :
     /\ Px(y) + rectBounds(player).top <= Px(rows[r]) + EnemyRectBounds.bottom
     /\ Px(rows[r]) + EnemyRectBounds.top <= Px(y) + rectBounds(player).bottom

\* C28: the player is marked hit only at a height with -4 <= y <= 307, which are
\* exactly the heights, between the top clamp and the start row, at which its box
\* can meet an enemy row; so it is never hit at the start height 405 (the tick
\* after a reset cannot ask for another reset for a hit), and it is never both hit
\* and in the water (y < -10).
C28_HitOnlyBesideEnemyRows ==
  (player # NoPlayer /\ isHit(player)) =>
    /\ player.y >= Px(-4) /\ player.y <= Px(307)
    /\ player.y # Px(rows[6])
    /\ ~reachedWater(player)
    /\ \A y \in (screenBounds.y - rectBounds(player).top) \div UnitsPerSecond .. rows[6] :
         MeetsAnEnemyRow(y) <=> (y >= -4 /\ y <= 307)

\* C28 witness: after a collision pass the player is in the water, under an enemy
\* of the top row whose box spans the player's box horizontally, and is not hit;
\* the reset that is pending is the one for success
C28_Witness ==
  /\ pc = "render"
  /\ reachedWater(player)
  /\ ~isHit(player)
  /\ reset_param = "true"
  /\ \E i \in 1..Len(allEnemies) :
       /\ allEnemies[i].y = Px(rows[2])
       /\ allEnemies[i].x + rectBounds(allEnemies[i]).left
            <= player.x + rectBounds(player).right
       /\ player.x + rectBounds(player).left
            <= allEnemies[i].x + rectBounds(allEnemies[i]).right

\* C29: the player's speed is 333 or 666 in every state; it is 666 only while no
\* live Bonus is left in the session, so that the Bonus is applied at most once
\* between two resets; and the speed changes only from 333 to 666, in a step
\* that is no reset, or back to 333 by a reset: a Bonus that is dead never doubles
\* it again.
C29_SpeedDoubledAtMostOnce ==
  /\ [](player # NoPlayer =>
          /\ player.speed \in {PlayerSpeed, 2 * PlayerSpeed}
          /\ player.speed = 2 * PlayerSpeed =>
               \A i \in OfKind(critters, "Bonus") : ~Bonus_isAlive(critters[i]))
  /\ [][(player # NoPlayer /\ player'.speed # player.speed) =>
          IF ResetStep
            THEN player'.speed = PlayerSpeed
            ELSE player.speed = PlayerSpeed /\ player'.speed = 2 * PlayerSpeed]_vars

\* C29 witness: the player caught the Bonus in an earlier tick; the update of this
\* tick has dropped the dead Bonus from the list and the speed is still 666
C29_Witness ==
  /\ pc = "collide"
  /\ player.speed = 2 * PlayerSpeed
  /\ OfKind(critters, "Bonus") = {}
  /\ ~reset_request

\* C30: the x of a Bouncing or Wild enemy constructed within [0, W] is within
\* [-rectBounds.right, W] after every update, however long its dt; and an update
\* changes goingRight only if it clamps x to the boundary it turns at (W when it
\* turns left, -rectBounds.right when it turns right) or if it is the update of a
\* Wild enemy in which a decision fires.
C30_BouncersStayInRange ==
  /\ [](allEnemies[1].kind \in {"Bouncing", "Wild"} =>
          /\ allEnemies[1].x >= -rectBounds(allEnemies[1]).right
          /\ allEnemies[1].x <= screenBounds.width)
  /\ [][(allEnemies[1].kind \in {"Bouncing", "Wild"}
           /\ allEnemies'[1].goingRight # allEnemies[1].goingRight) =>
          \/ ~allEnemies'[1].goingRight /\ allEnemies'[1].x = screenBounds.width
          \/ allEnemies'[1].goingRight
               /\ allEnemies'[1].x = -rectBounds(allEnemies[1]).right
          \/ WildDecides(allEnemies[1], elapsed' - elapsed)]_vars

\* C30 witness: a Wild enemy that has sped up twice sits at the left boundary,
\* where the second of two long updates has just turned it
C30_Witness ==
  /\ allEnemies[1].kind = "Wild"
  /\ allEnemies[1].speed = 222 + 2 * WildSpeedChange
  /\ allEnemies[1].goingRight
  /\ allEnemies[1].x = -rectBounds(allEnemies[1]).right
  /\ elapsed = 2 * LongTick

\* C31: dead is absorbing for a Text, a MultiText, a Chronos and a Bonus: an
\* update with any dt >= 0 of an actor whose isAlive() is false leaves isAlive()
\* false; and no update makes the state of a Text, the index of a MultiText or the
\* time of a Chronos smaller, nor sets the alive flag of a Bonus back to true.
C31_DeadIsAbsorbing ==
  [][/\ ~Actor_isAlive(critters[1]) => ~Actor_isAlive(critters'[1])
     /\ IsText(critters[1]) => critters'[1].state_ >= critters[1].state_
     /\ (~IsText(critters[1]) /\ critters[1].kind = "MultiText") =>
          /\ critters'[1].idx >= critters[1].idx
          /\ \A k \in 1..Len(critters[1].texts) :
               critters'[1].texts[k].state_ >= critters[1].texts[k].state_
     /\ (~IsText(critters[1]) /\ critters[1].kind = "Chronos") =>
          critters'[1].time_ >= critters[1].time_
     /\ (~IsText(critters[1]) /\ critters[1].kind = "Bonus") =>
          (critters'[1].alive_ => critters[1].alive_)]_vars

\* C31 witness: a Bonus the player caught has been updated again after its death,
\* with the player still on it (the speed was doubled a second time), and is dead
C31_Witness ==
  /\ pc = "actor"
  /\ player # NoPlayer
  /\ player.speed = 4 * PlayerSpeed
  /\ ~Actor_isAlive(critters[1])

\* C32: the goal can be reached although the player is clamped: the top clamp is
\* screenBounds.y - rectBounds.top = -12, the y of the player is never less than
\* that, and at the clamp reachedWater() is true (-12 < -10); a collision pass
\* that finds the player there asks for a reset with true, and the reset that is
\* then applied is the one for success.
C32_GoalReachableAtClamp ==
  /\ [](player # NoPlayer =>
          /\ screenBounds.y - rectBounds(player).top = Px(-12)
          /\ player.y >= Px(-12)
          /\ player.y = Px(-12) => reachedWater(player))
  /\ [][(pc = "collide" /\ player.y = Px(-12)) =>
          (reset_request' /\ reset_param' = "true")]_vars
  /\ [][(pc = "waiting" /\ pc' = "update" /\ player.y = Px(-12)) =>
          /\ reset_request
          /\ FirstMessages(critters') = {"CONGRATULATIONS!"}
          /\ player'.y = Px(rows[6])]_vars

\* C32 witness: holding up, the player has got from the start row to the clamp and
\* the collision pass has asked for the reset for success
C32_Witness ==
  /\ pc = "render"
  /\ player.moves.up
  /\ player.y = Px(-12)
  /\ player.x = Px(202)
  /\ reset_request /\ reset_param = "true"

====
